---- MODULE Spec2Model ----
(***************************************************************************)
(* N-dimensional Game of Life (src/main.rs): coordinate addition, the      *)
(* Moore-neighbourhood offset generator, the sparse board and its          *)
(* operations, neighbour counting and the generation cycle.                *)
(*                                                                         *)
(* A Vector<N> is a sequence of N integers in the i32 range.  The i32      *)
(* `+=` of vec_add depends on the build: with overflow checks (debug       *)
(* profile) an out-of-range sum panics, without them (release profile) it  *)
(* wraps modulo 2^32.  The build is the variable overflow_checks.          *)
(***************************************************************************)
EXTENDS Integers, Sequences, FiniteSets, TLC

VARIABLES
    N,               \* const generic N of Life<N>
    overflow_checks, \* build profile: TRUE = i32 overflow panics, FALSE = wraps
    cells,           \* Life::cells, the set of live positions
    neighbors,       \* Life::neighbors, the cached offsets (a Vec: a sequence)
    panicked,        \* the process aborted on an arithmetic-overflow panic
    op,              \* the last operation called on the board and its argument
    result,          \* what the last operation returned
    seed,            \* the board the generations started from
    prev,            \* the live set before the last completed cycle()
    gen,             \* number of completed cycle() calls
    pc,              \* position inside cycle(): "idle" or "scan"
    todo,            \* cells not yet visited by empty_with_neighbors' loop
    count,           \* the HashMap `count` of empty_with_neighbors
    go_pc,           \* position inside gen_offsets
    go_ns,           \* gen_offsets' `ns`
    go_new,          \* gen_offsets' `new`
    go_round,        \* gen_offsets' outer loop variable (1..N)
    go_n,            \* index of `n` in ns.iter_mut()
    go_d             \* inner loop variable d in -1..=1

vars == <<N, overflow_checks, cells, neighbors, panicked, op, result, seed,
          prev, gen, pc, todo, count, go_pc, go_ns, go_new, go_round, go_n,
          go_d>>

boardVars == <<N, overflow_checks, cells, neighbors, panicked, op, result>>
cycleVars == <<seed, prev, gen, pc, todo, count>>
offsetVars == <<go_pc, go_ns, go_new, go_round, go_n, go_d>>

----------------------------------------------------------------------------
(* Bounds of the model *)

\* dimensions of the boards explored: 1 .. MaxDim
MaxDim == 2
\* dimensions gen_offsets is run for on its own: 1 .. MaxOffsetsDim
MaxOffsetsDim == 4
\* most live cells of a board that is seeded or put through cycle()
MaxCells == 4
\* most cycle() calls in a run
MaxGen == 2

\* i32::MAX, from the element type of Vector
MaxI32 == 2147483647
MinI32 == -MaxI32 - 1

----------------------------------------------------------------------------
(* i32 arithmetic of `res[i] += val` *)

\* the mathematical sum x + y is outside the i32 range
AddOverflows(x, y) ==
    \/ (y > 0 /\ x > MaxI32 - y)
    \/ (y < 0 /\ x < MinI32 - y)

\* x + y reduced modulo 2^32 into the i32 range (wrapping_add)
WrappingAdd(x, y) ==
    IF y > 0 /\ x > MaxI32 - y THEN (x + MinI32) + (y + MinI32)
    ELSE IF y < 0 /\ x < MinI32 - y THEN (x - MinI32) + (y - MinI32)
    ELSE x + y

\* some component of a + b overflows: vec_add panics when overflow_checks
vec_add_overflows(a, b) == \E i \in 1..Len(a) : AddOverflows(a[i], b[i])

vec_add_Assign(a, b) == [i \in 1..Len(a) |-> b[i]]

\* the vector vec_add returns when it returns
vec_add(a, b) == [i \in 1..Len(a) |-> WrappingAdd(a[i], b[i])]

----------------------------------------------------------------------------
(* gen_offsets *)

Zero(n) == [i \in 1..n |-> 0]

KeepOffset_All(v) == TRUE

\* the closure of .filter(): drop the centre point
KeepOffset(v) == v # Zero(Len(v))

\* one round of the outer loop: every n of ns extended by each d in -1..=1
ExtendAll(ns) ==
    [k \in 1..(3 * Len(ns)) |-> Append(ns[((k - 1) \div 3) + 1], ((k - 1) % 3) - 1)]

RECURSIVE Rounds(_, _)
Rounds(ns, r) == IF r = 0 THEN ns ELSE Rounds(ExtendAll(ns), r - 1)

\* gen_offsets() of Life<n>, start to end
gen_offsets(n) == SelectSeq(Rounds(<< <<-1>>, <<0>>, <<1>> >>, n - 1), KeepOffset)

\* the same function step by step: Init, then one action per loop step
OffsetsInit ==
    /\ N \in 1..MaxOffsetsDim
    /\ go_pc = "outer"
    /\ go_ns = << <<-1>>, <<0>>, <<1>> >>
    /\ go_new = << >>
    /\ go_round = 1
    /\ go_n = 1
    /\ go_d = -1
    /\ neighbors = << >>
    /\ overflow_checks = FALSE
    /\ cells = {}
    /\ panicked = FALSE
    /\ op = [name |-> "gen_offsets", pos |-> << >>, off |-> << >>]
    /\ result = "none"
    /\ seed = {}
    /\ prev = {}
    /\ gen = 0
    /\ pc = "idle"
    /\ todo = {}
    /\ count = << >>

\* `for _ in 1..N {`  `let mut new = Vec::new();`
OffsetsRound ==
    /\ go_pc = "outer"
    /\ go_round < N
    /\ go_new' = << >>
    /\ go_n' = 1
    /\ go_d' = -1
    /\ go_pc' = "inner"
    /\ UNCHANGED <<go_ns, go_round, boardVars, cycleVars>>

\* `let mut nn = n.clone(); nn.push(d); new.push(nn);`
OffsetsPush ==
    /\ go_pc = "inner"
    /\ go_n <= Len(go_ns)
    /\ go_new' = Append(go_new, Append(go_ns[go_n], go_d))
    /\ IF go_d = 1
       THEN go_n' = go_n + 1 /\ go_d' = -1
       ELSE go_n' = go_n /\ go_d' = go_d + 1
    /\ UNCHANGED <<go_pc, go_ns, go_round, boardVars, cycleVars>>

\* `ns = new;` and the next value of the outer loop
OffsetsRoundEnd ==
    /\ go_pc = "inner"
    /\ go_n > Len(go_ns)
    /\ go_ns' = go_new
    /\ go_round' = go_round + 1
    /\ go_pc' = "outer"
    /\ UNCHANGED <<go_new, go_n, go_d, boardVars, cycleVars>>

\* `ns.into_iter().map(..).filter(..).collect()`
OffsetsCollect ==
    /\ go_pc = "outer"
    /\ go_round >= N
    /\ neighbors' = SelectSeq(go_ns, KeepOffset)
    /\ go_pc' = "done"
    /\ UNCHANGED <<N, overflow_checks, cells, panicked, op, result,
                   go_ns, go_new, go_round, go_n, go_d, cycleVars>>

OffsetsNext == OffsetsRound \/ OffsetsPush \/ OffsetsRoundEnd \/ OffsetsCollect

SpecOffsets == OffsetsInit /\ [][OffsetsNext]_vars

RECURSIVE Pow3(_)
Pow3(n) == IF n = 0 THEN 1 ELSE 3 * Pow3(n - 1)

\* the N-dimensional Moore neighbourhood as a set of vectors
Moore(n) == {v \in [1..n -> {-1, 0, 1}] : v # Zero(n)}

\* C2: when gen_offsets returns, its result has exactly 3^N - 1 entries, they
\* are pairwise distinct, each has length N and components in {-1, 0, 1},
\* none is the zero vector, and together they are exactly the Moore
\* neighbourhood of dimension N.
C2_OffsetsAreMoore ==
    go_pc = "done" =>
        /\ Len(neighbors) = Pow3(N) - 1
        /\ \A i, j \in 1..Len(neighbors) : i # j => neighbors[i] # neighbors[j]
        /\ \A i \in 1..Len(neighbors) :
              /\ Len(neighbors[i]) = N
              /\ \A k \in 1..N : neighbors[i][k] \in {-1, 0, 1}
              /\ neighbors[i] # Zero(N)
        /\ {neighbors[i] : i \in 1..Len(neighbors)} = Moore(N)
        /\ neighbors = gen_offsets(N)

C2_Witness == go_pc = "done" /\ N = MaxOffsetsDim /\ Len(neighbors) = Pow3(MaxOffsetsDim) - 1

----------------------------------------------------------------------------
(* The board: Life<N> *)

\* coordinates the explored boards are seeded from, per axis: the origin's
\* surroundings and, on the first axis, the top of the i32 range
AxisCoords(k) ==
    IF k = 1 THEN {0, 1, MaxI32}
    ELSE IF k = 2 THEN {-1, 0, 1}
    ELSE {0}

Seeds(n) ==
    {v \in [1..n -> {-1, 0, 1, MaxI32}] : \A k \in 1..n : v[k] \in AxisCoords(k)}

Boards(n) == {S \in SUBSET Seeds(n) : Cardinality(S) <= MaxCells}

NoPos == << >>

\* Life::get
get(cs, pos) == pos \in cs

create_Nothing(cs, pos) == cs

\* Life::create: HashSet::insert
create(cs, pos) == cs \cup {pos}

\* kill(pos): removes pos from the live-cell set (spec 4.3)
kill(cs, pos) == cs \ {pos}

count_neighbors_NoAdd(cs, ns, pos) ==
    Cardinality({i \in 1..Len(ns) : get(cs, ns[i])})

\* Life::count_neighbors when no addition panics: the number of entries d of
\* the offset Vec with a live cell at vec_add(d, pos)
count_neighbors(cs, ns, pos) ==
    Cardinality({i \in 1..Len(ns) : get(cs, vec_add(ns[i], pos))})

\* some vec_add(d, pos) of count_neighbors overflows (every d is visited)
count_neighbors_overflows(ns, pos) ==
    \E i \in 1..Len(ns) : vec_add_overflows(ns[i], pos)

\* Life::new, for either build
NewBoard ==
    /\ N \in 1..MaxDim
    /\ overflow_checks \in BOOLEAN
    /\ neighbors = gen_offsets(N)
    /\ panicked = FALSE
    /\ result = "none"
    /\ gen = 0
    /\ pc = "idle"
    /\ todo = {}
    /\ count = << >>
    /\ go_pc = "done"
    /\ go_ns = << >>
    /\ go_new = << >>
    /\ go_round = N
    /\ go_n = 1
    /\ go_d = -1

Init ==
    /\ NewBoard
    /\ cells = {}
    /\ seed = {}
    /\ prev = {}
    /\ op = [name |-> "new", pos |-> NoPos, off |-> NoPos]

Create(p) ==
    /\ ~panicked
    /\ pc = "idle"
    /\ Cardinality(cells \cup {p}) <= MaxCells
    /\ cells' = create(cells, p)
    /\ op' = [name |-> "create", pos |-> p, off |-> NoPos]
    /\ result' = "unit"
    /\ UNCHANGED <<N, overflow_checks, neighbors, panicked, cycleVars, offsetVars>>

Kill(p) ==
    /\ ~panicked
    /\ pc = "idle"
    /\ cells' = kill(cells, p)
    /\ op' = [name |-> "kill", pos |-> p, off |-> NoPos]
    /\ result' = "unit"
    /\ UNCHANGED <<N, overflow_checks, neighbors, panicked, cycleVars, offsetVars>>

Get(p) ==
    /\ ~panicked
    /\ pc = "idle"
    /\ op' = [name |-> "get", pos |-> p, off |-> NoPos]
    /\ result' = get(cells, p)
    /\ UNCHANGED <<N, overflow_checks, cells, neighbors, panicked, cycleVars, offsetVars>>

Next == \E p \in Seeds(N) : Create(p) \/ Kill(p) \/ Get(p)

Spec == Init /\ [][Next]_vars

\* C8: create(p) makes p live and changes no other position (so it changes
\* nothing when p was live), kill(p) makes p dead and changes no other
\* position (so it changes nothing when p was dead), get(p) reports the
\* liveness of p and changes nothing; get(p) right after create(p) returns
\* true, and get(p) right after kill(p) returns false, whatever came before
\* the kill (a create(p) included).
C8_CreateKillGet ==
    [][ /\ (op'.name = "create" =>
               /\ op'.pos \in cells'
               /\ cells' \ {op'.pos} = cells \ {op'.pos}
               /\ (op'.pos \in cells => cells' = cells))
        /\ (op'.name = "kill" =>
               /\ op'.pos \notin cells'
               /\ cells' \ {op'.pos} = cells \ {op'.pos}
               /\ (op'.pos \notin cells => cells' = cells))
        /\ (op'.name = "get" => result' = (op'.pos \in cells) /\ cells' = cells)
        /\ (op.name = "create" /\ op'.name = "get" /\ op'.pos = op.pos
               => result' = TRUE)
        /\ (op.name = "kill" /\ op'.name = "get" /\ op'.pos = op.pos
               => result' = FALSE)
      ]_vars

C8_Witness ==
    /\ op.name = "get"
    /\ result = FALSE
    /\ Cardinality(cells) = MaxCells - 1
    /\ op.pos \notin cells

----------------------------------------------------------------------------
(* vec_add called on its own *)

\* arguments tried: the seed positions and the offsets
Operands(n) == Seeds(n) \cup Moore(n)

\* vec_add(a, b): the sum, or a panic in a build with overflow checks
VecAdd(a, b) ==
    /\ ~panicked
    /\ pc = "idle"
    /\ op' = [name |-> "vec_add", pos |-> a, off |-> b]
    /\ IF overflow_checks /\ vec_add_overflows(a, b)
       THEN panicked' = TRUE /\ result' = "panic"
       ELSE panicked' = FALSE /\ result' = vec_add(a, b)
    /\ UNCHANGED <<N, overflow_checks, cells, neighbors, cycleVars, offsetVars>>

AddNext == \E a, b \in Operands(N) : VecAdd(a, b)

SpecAdd == Init /\ [][AddNext]_vars

\* C7: whenever some a[i] + b[i] is outside the i32 range, vec_add does not
\* return the sum reduced modulo 2^32: it ends in a checked error or returns
\* something else than the wrapped sum.
C7_NoSilentWrap ==
    (op.name = "vec_add" /\ vec_add_overflows(op.pos, op.off)) =>
        \/ panicked
        \/ result # [i \in 1..N |-> WrappingAdd(op.pos[i], op.off[i])]

----------------------------------------------------------------------------
(* count_neighbors called on a seeded board *)

SeededInit ==
    /\ NewBoard
    /\ cells \in Boards(N)
    /\ seed = cells
    /\ prev = cells
    /\ op = [name |-> "create", pos |-> NoPos, off |-> NoPos]

CountNeighbors(p) ==
    /\ ~panicked
    /\ pc = "idle"
    /\ op' = [name |-> "count_neighbors", pos |-> p, off |-> NoPos]
    /\ IF overflow_checks /\ count_neighbors_overflows(neighbors, p)
       THEN panicked' = TRUE /\ result' = "panic"
       ELSE panicked' = FALSE /\ result' = count_neighbors(cells, neighbors, p)
    /\ UNCHANGED <<N, overflow_checks, cells, neighbors, cycleVars, offsetVars>>

\* positions queried: the seed positions and their neighbours one step up
\* the first axis (for the top of the range, the wrapped one)
Queries(n) == Seeds(n) \cup {vec_add(s, [i \in 1..n |-> IF i = 1 THEN 1 ELSE 0]) : s \in Seeds(n)}

CountNext == \E p \in Queries(N) : CountNeighbors(p)

SpecCount == SeededInit /\ [][CountNext]_vars

\* x and y are the same coordinate or adjacent integers
Near(x, y) ==
    \/ x = y
    \/ (x < MaxI32 /\ x + 1 = y)
    \/ (y < MaxI32 /\ y + 1 = x)

\* number of cells of S in the Moore neighbourhood of x on the integer lattice
MooreCount(S, x) ==
    Cardinality({c \in S : c # x /\ \A i \in 1..Len(x) : Near(c[i], x[i])})

\* C3: a count_neighbors(pos) call that returns gives the number of offsets o
\* with pos + o live, never counting pos itself, a number in 0 .. 3^N - 1,
\* and leaves the live-cell set and the offset set as they were.
C3_CountIsMooreCount ==
    (op.name = "count_neighbors" /\ ~panicked) =>
        /\ result = MooreCount(cells, op.pos)
        /\ result \in 0..(Pow3(N) - 1)
        /\ cells = seed
        /\ neighbors = gen_offsets(N)

\* the board S with every cell moved by t
Translate(S, t) == {vec_add(c, t) : c \in S}

\* moving the board and pos by t, then counting, runs into no overflow panic
TranslatedCountRuns(S, pos, t) ==
    overflow_checks =>
        /\ \A c \in S \cup {pos} : ~vec_add_overflows(c, t)
        /\ ~count_neighbors_overflows(neighbors, vec_add(pos, t))

\* translations tried: the seed positions as vectors, and one step down
\* every axis
Shifts(n) == Seeds(n) \cup {[i \in 1..n |-> -1]}

----------------------------------------------------------------------------
(* cycle and empty_with_neighbors *)

Survives_AtMost3(n) == n <= 3

\* `.filter(|(_, n)| *n == 2 || *n == 3)`
Survives(n) == n = 2 \/ n = 3

Born_AtLeast2(n) == n >= 2

\* `.filter(|(_, &n)| n == 3)`
Born(n) == n = 3

\* `tmp` of one loop iteration: the positions around c that are neither
\* already in the map nor live
Candidates(cs, ns, cnt, c) ==
    {pos \in {vec_add(ns[i], c) : i \in 1..Len(ns)} :
        pos \notin DOMAIN cnt /\ ~get(cs, pos)}

ScanCell_Drained(cs, ns, cnt, c) ==
    [pos \in (DOMAIN cnt) \cup Candidates(cs, ns, cnt, c) |->
        IF pos \in DOMAIN cnt THEN cnt[pos] ELSE count_neighbors(todo, ns, pos)]

\* the map after one loop iteration of empty_with_neighbors: count.extend(tmp)
ScanCell(cs, ns, cnt, c) ==
    [pos \in (DOMAIN cnt) \cup Candidates(cs, ns, cnt, c) |->
        IF pos \in DOMAIN cnt THEN cnt[pos] ELSE count_neighbors(cs, ns, pos)]

\* some addition of that loop iteration overflows
ScanCellOverflows(cs, ns, cnt, c) ==
    \/ \E i \in 1..Len(ns) : vec_add_overflows(ns[i], c)
    \/ \E pos \in Candidates(cs, ns, cnt, c) : count_neighbors_overflows(ns, pos)

\* the live set cycle() assigns: `self.cells = survive; self.cells.extend(new)`
NextCells(cs, ns, cnt) ==
    {c \in cs : Survives(count_neighbors(cs, ns, c))}
        \cup {pos \in DOMAIN cnt : Born(cnt[pos])}

\* `let ns = self.empty_with_neighbors();`  `let mut count = HashMap::new();`
CycleBegin ==
    /\ ~panicked
    /\ pc = "idle"
    /\ gen < MaxGen
    /\ Cardinality(cells) <= MaxCells
    /\ pc' = "scan"
    /\ todo' = cells
    /\ count' = << >>
    /\ UNCHANGED <<boardVars, seed, prev, gen, offsetVars>>

\* one iteration of `for c in self.cells.iter()`, in whatever order the
\* HashSet yields its elements
CycleScan(c) ==
    /\ ~panicked
    /\ pc = "scan"
    /\ c \in todo
    /\ IF overflow_checks /\ ScanCellOverflows(cells, neighbors, count, c)
       THEN /\ panicked' = TRUE
            /\ result' = "panic"
            /\ UNCHANGED <<todo, count>>
       ELSE /\ count' = ScanCell(cells, neighbors, count, c)
            /\ todo' = todo \ {c}
            /\ UNCHANGED <<panicked, result>>
    /\ UNCHANGED <<N, overflow_checks, cells, neighbors, op, seed, prev, gen, pc,
                   offsetVars>>

\* the rest of cycle(): new, survive and the replacement of self.cells
CycleApply ==
    /\ ~panicked
    /\ pc = "scan"
    /\ todo = {}
    /\ op' = [name |-> "cycle", pos |-> NoPos, off |-> NoPos]
    /\ IF overflow_checks /\ \E c \in cells : count_neighbors_overflows(neighbors, c)
       THEN /\ panicked' = TRUE
            /\ result' = "panic"
            /\ UNCHANGED <<cells, prev, gen, pc>>
       ELSE /\ cells' = NextCells(cells, neighbors, count)
            /\ prev' = cells
            /\ gen' = gen + 1
            /\ pc' = "idle"
            /\ result' = "unit"
            /\ UNCHANGED panicked
    /\ UNCHANGED <<N, overflow_checks, neighbors, seed, todo, count, offsetVars>>

CycleNext == CycleBegin \/ (\E c \in todo : CycleScan(c)) \/ CycleApply

SpecCycle == SeededInit /\ [][CycleNext]_vars

\* a cycle() call has returned
Cycled == gen >= 1 /\ pc = "idle" /\ ~panicked

\* the positions of the lattice next to a cell of S
Around(S) ==
    {p \in {vec_add(c, o) : c \in S, o \in Moore(N)} :
        \E c \in S : \A i \in 1..N : Near(c[i], p[i])}

\* the next generation of S by the rule, neighbours counted on the lattice
LifeRule(S) ==
    {c \in S : MooreCount(S, c) \in {2, 3}}
        \cup {p \in Around(S) \ S : MooreCount(S, p) = 3}

\* C1: a cycle() that returns has replaced the live set S by the cells of S
\* with 2 or 3 neighbours in S together with the dead positions with exactly
\* 3 neighbours in S, neighbours being the cells of the Moore neighbourhood.
C1_CycleIsLifeRule == Cycled => cells = LifeRule(prev)

Rod == {<<0, -1>>, <<0, 0>>, <<0, 1>>}

\* C4: from the rod, one cycle() gives a different live set and two cycle()
\* calls give the rod again.
C4_RodOscillates ==
    (N = 2 /\ seed = Rod /\ pc = "idle") =>
        /\ ~panicked
        /\ (gen = 1 => cells # Rod)
        /\ (gen = 2 => cells = Rod)

C4_Witness == N = 2 /\ seed = Rod /\ pc = "idle" /\ gen = 2 /\ cells = Rod

Square == {<<0, 0>>, <<0, 1>>, <<1, 0>>, <<1, 1>>}

\* C5: from the square, the live set is the square after every cycle().
C5_SquareIsStill ==
    (N = 2 /\ seed = Square) => (cells = Square /\ ~panicked)

C5_Witness == N = 2 /\ seed = Square /\ pc = "idle" /\ gen = MaxGen /\ cells = Square

RECURSIVE SomeOrder(_)
SomeOrder(S) ==
    IF S = {} THEN << >>
    ELSE LET c == CHOOSE x \in S : TRUE IN <<c>> \o SomeOrder(S \ {c})

\* empty_with_neighbors with the live cells visited in the given order
RECURSIVE ScanAll(_, _, _, _)
ScanAll(cs, ns, cnt, order) ==
    IF order = << >> THEN cnt
    ELSE ScanAll(cs, ns, ScanCell(cs, ns, cnt, Head(order)), Tail(order))

\* C10: whatever order the live cells were visited in, the neighbour-count
\* map at the end of the scan and the live set after cycle() are the ones
\* that one fixed visiting order gives for the same board.
C10_OrderIndependent ==
    /\ (pc = "scan" /\ todo = {} /\ ~panicked) =>
           count = ScanAll(cells, neighbors, << >>, SomeOrder(cells))
    /\ Cycled =>
           cells = NextCells(prev, neighbors,
                             ScanAll(prev, neighbors, << >>, SomeOrder(prev)))

C10_Witness ==
    /\ Cycled
    /\ N = 2
    /\ Cardinality(prev) = MaxCells
    /\ Cardinality(cells) > MaxCells

====
